---- MODULE Spec2Model ----
(***************************************************************************)
(* Model of NYC_taxi_trip_data_ETL.py: the checkpointed download /         *)
(* transform / load pipeline (download_new_files, process_files,           *)
(* save_to_mongodb, load_metadata, save_metadata) and the Spark filter     *)
(* chain of process_files.                                                 *)
(*                                                                         *)
(* Spec          the pipeline: repeated executions of the script, each a   *)
(*               sequence of steps, any of which may be cut by a crash of  *)
(*               the process or by an I/O error.                           *)
(* SpecTransform the Spark transformation of one dataframe.                *)
(***************************************************************************)
EXTENDS Integers, Sequences, FiniteSets, TLC

\* ---------------------------------------------------------------- bounds

\* Catalog entries (the script enumerates years x range(1, 13)).
NumFiles == 2
\* Rows of the dataframe handed to the transformation.
MaxRows == 1
\* Timestamps are counted in sub-second ticks; 0..MaxTick.
MaxTick == 3
\* Ticks per second (Spark timestamps: 1000000 microseconds per second).
TicksPerSecond == 2

\* ------------------------------------------------------------- constants

\* when(col("trip_distance") <= 2, "short")
ShortMax == 2
\* .when(col("trip_distance") <= 10, "medium")
MediumMax == 10
\* (unix_timestamp(dropoff) - unix_timestamp(pickup)) / 60
SecondsPerMinute == 60

VARIABLES
    metadata_downloaded,  \* content of downloaded_files.json
    metadata_processed,   \* content of processed_files.json
    local_folder,         \* per catalog entry: state of the local parquet file
    collection,           \* per catalog entry: how often its documents were inserted
    pc,                   \* position of the script
    idx,                  \* position of the running for loop
    downloaded_files,     \* the list of that name (in memory)
    processed_files,      \* the list of that name (in memory)
    to_process_files,     \* the list of that name (in memory)
    http_requests,        \* per catalog entry: requests.get calls of this execution
    outcome,              \* per catalog entry: how its transform+load ended in this execution
    meta_write_failed,    \* save_metadata raised in this execution
    clean,                \* no download, read, load or file write has failed so far (crashes apart)
    source_rows,          \* rows of the parquet file read by spark.read
    spark_df,             \* the dataframe spark_df
    stage                 \* position in the transformation chain

pipeline_vars == <<metadata_downloaded, metadata_processed, local_folder, collection,
                   pc, idx, downloaded_files, processed_files, to_process_files,
                   http_requests, outcome, meta_write_failed, clean>>
transform_vars == <<source_rows, spark_df, stage>>
vars == <<pipeline_vars, transform_vars>>

\* ------------------------------------------------------------- helpers

Range(s) == {s[k] : k \in 1..Len(s)}

\* The catalog: for year in years: for month in range(1, 13); entry k is the
\* k-th file_name the two loops produce.
Catalog == [k \in 1..NumFiles |-> k]
Files == Range(Catalog)

\* ------------------------------------------------- the metadata store

\* A checkpoint file: absent, a JSON array, or cut short (open(path, "w")
\* truncated it and json.dump's output did not reach it).
NoFile == [st |-> "missing", data |-> <<>>]
TornFile == [st |-> "torn", data |-> <<>>]
JsonFile(data) == [st |-> "json", data |-> data]

\* load_metadata: the list, [] on FileNotFoundError; json.load raises
\* JSONDecodeError on a truncated file, which load_metadata does not catch.
load_metadata(file) ==
    [raised |-> file.st = "torn",
     value |-> IF file.st = "json" THEN file.data ELSE <<>>]

\* save_metadata, first half: open(path, "w") truncates the file.
save_metadata_open(file) == TornFile

\* save_metadata, second half: json.dump and the close of the with block.
save_metadata_dump(data) == JsonFile(data)

\* The persisted sets, as a later execution would load them.
DownloadedSet == Range(load_metadata(metadata_downloaded).value)
ProcessedSet == Range(load_metadata(metadata_processed).value)
Readable(file) == ~load_metadata(file).raised

\* ------------------------------------------------------ the pipeline

\* The state a new process starts from: nothing in memory, nothing requested,
\* nothing failed yet.
Restart ==
    /\ pc' = "idle"
    /\ idx' = 0
    /\ downloaded_files' = <<>>
    /\ processed_files' = <<>>
    /\ to_process_files' = <<>>
    /\ http_requests' = [f \in Files |-> 0]
    /\ meta_write_failed' = FALSE
    /\ outcome' = [f \in Files |-> "none"]

PipelineInit ==
    /\ metadata_downloaded = NoFile
    /\ metadata_processed = NoFile
    /\ local_folder = [f \in Files |-> "absent"]
    /\ collection = [f \in Files |-> "never"]
    /\ pc = "idle"
    /\ idx = 0
    /\ downloaded_files = <<>>
    /\ processed_files = <<>>
    /\ to_process_files = <<>>
    /\ http_requests = [f \in Files |-> 0]
    /\ outcome = [f \in Files |-> "none"]
    /\ meta_write_failed = FALSE
    /\ clean = TRUE

\* The script is started: download_new_files() is called.
StartRun ==
    /\ pc = "idle"
    /\ pc' = "dl_load"
    /\ UNCHANGED transform_vars
    /\ UNCHANGED <<metadata_downloaded, metadata_processed, local_folder, collection,
                   idx, downloaded_files, processed_files, to_process_files,
                   http_requests, outcome, meta_write_failed, clean>>

\* download_new_files, line 56: downloaded_files = load_metadata(...).
\* A JSONDecodeError leaves the function and ends the script.
DlLoad ==
    /\ pc = "dl_load"
    /\ LET r == load_metadata(metadata_downloaded) IN
        \/ /\ r.raised
           /\ Restart
        \/ /\ ~r.raised
           /\ downloaded_files' = r.value
           /\ idx' = 1
           /\ pc' = "dl_loop"
           /\ UNCHANGED <<processed_files, to_process_files,
                          http_requests, outcome, meta_write_failed>>
    /\ UNCHANGED <<transform_vars, clean>>
    /\ UNCHANGED <<metadata_downloaded, metadata_processed, local_folder, collection>>

\* Line 64 with the skip test lost: every entry is fetched.
needs_no_download_never(f) == FALSE

\* Line 64: file_name in downloaded_files or os.path.exists(local_file_path).
needs_no_download(f) ==
    f \in Range(downloaded_files) \/ local_folder[f] # "absent"

\* Lines 64-66: the entry is skipped.
DlSkip ==
    /\ pc = "dl_loop"
    /\ idx <= NumFiles
    /\ needs_no_download(Catalog[idx])
    /\ idx' = idx + 1
    /\ UNCHANGED transform_vars
    /\ UNCHANGED <<metadata_downloaded, metadata_processed, local_folder, collection,
                   pc, downloaded_files, processed_files, to_process_files,
                   http_requests, outcome, meta_write_failed, clean>>

\* Lines 68-71 and 77-78: requests.get and raise_for_status. A
\* RequestException is caught, printed, and the loop goes on.
DlGet ==
    /\ pc = "dl_loop"
    /\ idx <= NumFiles
    /\ ~needs_no_download(Catalog[idx])
    /\ http_requests' = [http_requests EXCEPT ![Catalog[idx]] = @ + 1]
    /\ \/ /\ pc' = "dl_open"
          /\ UNCHANGED <<idx, clean>>
       \/ /\ idx' = idx + 1
          /\ clean' = FALSE
          /\ UNCHANGED pc
    /\ UNCHANGED transform_vars
    /\ UNCHANGED <<metadata_downloaded, metadata_processed, local_folder, collection,
                   downloaded_files, processed_files, to_process_files,
                   outcome, meta_write_failed>>

\* Line 72: open(local_file_path, "wb") creates the (empty) local file.
DlOpen ==
    /\ pc = "dl_open"
    /\ local_folder' = [local_folder EXCEPT ![Catalog[idx]] = "partial"]
    /\ pc' = "dl_write"
    /\ UNCHANGED transform_vars
    /\ UNCHANGED <<metadata_downloaded, metadata_processed, collection, idx,
                   downloaded_files, processed_files, to_process_files,
                   http_requests, outcome, meta_write_failed, clean>>

\* Lines 73-75: f.write(response.content), then downloaded_files.append.
\* An OSError of the write is no RequestException: it ends the script.
DlWrite ==
    /\ pc = "dl_write"
    /\ \/ /\ local_folder' = [local_folder EXCEPT ![Catalog[idx]] = "full"]
          /\ downloaded_files' = Append(downloaded_files, Catalog[idx])
          /\ pc' = "dl_save_open"
          /\ UNCHANGED <<idx, processed_files, to_process_files,
                         http_requests, outcome, meta_write_failed, clean>>
       \/ /\ Restart
          /\ clean' = FALSE
          /\ UNCHANGED local_folder
    /\ UNCHANGED transform_vars
    /\ UNCHANGED <<metadata_downloaded, metadata_processed, collection>>

\* Line 76 -> line 48: open(path, "w") of save_metadata(metadata_downloaded, ...).
\* An OSError (permissions) is no RequestException: it leaves the file as it
\* was and ends the script.
DlSaveOpen ==
    /\ pc = "dl_save_open"
    /\ \/ /\ metadata_downloaded' = save_metadata_open(metadata_downloaded)
          /\ pc' = "dl_save_dump"
          /\ UNCHANGED <<idx, downloaded_files, processed_files, to_process_files,
                         http_requests, outcome, meta_write_failed, clean>>
       \/ /\ Restart
          /\ clean' = FALSE
          /\ UNCHANGED metadata_downloaded
    /\ UNCHANGED transform_vars
    /\ UNCHANGED <<metadata_processed, local_folder, collection>>

\* Line 76 -> line 49: json.dump and the close. An OSError (disk full) leaves
\* the truncated file and ends the script.
DlSaveDump ==
    /\ pc = "dl_save_dump"
    /\ \/ /\ metadata_downloaded' = save_metadata_dump(downloaded_files)
          /\ idx' = idx + 1
          /\ pc' = "dl_loop"
          /\ UNCHANGED <<downloaded_files, processed_files, to_process_files,
                         http_requests, outcome, meta_write_failed, clean>>
       \/ /\ Restart
          /\ clean' = FALSE
          /\ UNCHANGED metadata_downloaded
    /\ UNCHANGED transform_vars
    /\ UNCHANGED <<metadata_processed, local_folder, collection>>

\* The loops of download_new_files end; the script calls process_files().
DlDone ==
    /\ pc = "dl_loop"
    /\ idx > NumFiles
    /\ pc' = "pr_load"
    /\ UNCHANGED transform_vars
    /\ UNCHANGED <<metadata_downloaded, metadata_processed, local_folder, collection,
                   idx, downloaded_files, processed_files, to_process_files,
                   http_requests, outcome, meta_write_failed, clean>>

\* Line 87 without its "if file not in processed_files".
pending_files_unfiltered(downloaded, processed) == downloaded

\* Line 87 iterating the catalog instead of downloaded_files.
pending_files_of_catalog(downloaded, processed) ==
    SelectSeq(Catalog, LAMBDA f : f \notin Range(processed))

\* Line 87 with the pending files put in catalog order.
pending_files_sorted(downloaded, processed) ==
    SelectSeq(Catalog, LAMBDA f : f \in Range(downloaded) /\ f \notin Range(processed))

\* Line 87: [file for file in downloaded_files if file not in processed_files].
pending_files(downloaded, processed) ==
    SelectSeq(downloaded, LAMBDA f : f \notin Range(processed))

\* process_files, lines 85-91: both checkpoints are loaded (a JSONDecodeError
\* ends the script), to_process_files is built, and the function returns at
\* once when it is empty.
PrLoad ==
    /\ pc = "pr_load"
    /\ LET d == load_metadata(metadata_downloaded)
           p == load_metadata(metadata_processed)
           todo == pending_files(d.value, p.value) IN
        \/ /\ d.raised \/ p.raised
           /\ Restart
        \/ /\ ~d.raised /\ ~p.raised
           /\ downloaded_files' = d.value
           /\ processed_files' = p.value
           /\ to_process_files' = todo
           /\ idx' = 1
           /\ pc' = IF todo = <<>> THEN "done" ELSE "pr_loop"
           /\ UNCHANGED <<http_requests, outcome, meta_write_failed>>
    /\ UNCHANGED <<transform_vars, clean>>
    /\ UNCHANGED <<metadata_downloaded, metadata_processed, local_folder, collection>>

\* Lines 119-154 and 166-167: spark.read...parquet(original_file) and the lazy
\* transformations. An exception (the path is checked when the dataframe is
\* built) is caught by the loop's except, printed, and the loop goes on.
PrRead ==
    /\ pc = "pr_loop"
    /\ idx <= Len(to_process_files)
    /\ \/ /\ pc' = "pr_mongo"
          /\ UNCHANGED <<idx, outcome, clean>>
       \/ /\ outcome' = [outcome EXCEPT ![to_process_files[idx]] = "read_error"]
          /\ idx' = idx + 1
          /\ clean' = FALSE
          /\ UNCHANGED pc
    /\ UNCHANGED transform_vars
    /\ UNCHANGED <<metadata_downloaded, metadata_processed, local_folder, collection,
                   downloaded_files, processed_files, to_process_files,
                   http_requests, meta_write_failed>>

\* Line 180: collection.insert_many appends; nothing is looked up or replaced.
\* The collection holds the documents of a file never, once, or more than
\* once ("duplicated").
insert_many(stored) == IF stored = "never" THEN "once" ELSE "duplicated"

\* save_to_mongodb, lines 170-183: how the body of its try ends. df.toPandas()
\* runs the Spark job and may raise ("exec_error"); insert_many may raise
\* before storing anything ("sink_unavailable") or after storing some of the
\* documents ("partial_write"). Every exception is caught and printed at lines
\* 182-183: the function returns normally in all four cases.
save_to_mongodb(result, stored) ==
    [raised |-> FALSE,
     stored |-> IF result \in {"partial_write", "loaded"}
                THEN insert_many(stored) ELSE stored]

\* Lines 156-164: save_to_mongodb(spark_df), then processed_files.append.
\* Had save_to_mongodb raised, the except of line 166 would have skipped the
\* append and the save_metadata; it never does.
PrMongo ==
    /\ pc = "pr_mongo"
    /\ \E result \in {"exec_error", "sink_unavailable", "partial_write", "loaded"} :
        LET f == to_process_files[idx]
            r == save_to_mongodb(result, collection[f]) IN
        /\ collection' = [collection EXCEPT ![f] = r.stored]
        /\ outcome' = [outcome EXCEPT ![f] = result]
        /\ clean' = (clean /\ result = "loaded")
        /\ IF r.raised
           THEN /\ idx' = idx + 1
                /\ pc' = "pr_loop"
                /\ UNCHANGED processed_files
           ELSE /\ processed_files' = Append(processed_files, f)
                /\ pc' = "pr_save_open"
                /\ UNCHANGED idx
    /\ UNCHANGED transform_vars
    /\ UNCHANGED <<metadata_downloaded, metadata_processed, local_folder,
                   downloaded_files, to_process_files, http_requests, meta_write_failed>>

\* Line 165 -> line 48: open(path, "w") of save_metadata(metadata_processed, ...).
\* An OSError is caught by the loop's except (line 166): the loop goes on.
PrSaveOpen ==
    /\ pc = "pr_save_open"
    /\ \/ /\ metadata_processed' = save_metadata_open(metadata_processed)
          /\ pc' = "pr_save_dump"
          /\ UNCHANGED <<idx, meta_write_failed, clean>>
       \/ /\ meta_write_failed' = TRUE
          /\ clean' = FALSE
          /\ idx' = idx + 1
          /\ pc' = "pr_loop"
          /\ UNCHANGED metadata_processed
    /\ UNCHANGED transform_vars
    /\ UNCHANGED <<metadata_downloaded, local_folder, collection, downloaded_files,
                   processed_files, to_process_files, http_requests, outcome>>

\* Line 165 -> line 49: json.dump and the close. An OSError is caught by the
\* loop's except (line 166), the truncated file stays, and the loop goes on.
PrSaveDump ==
    /\ pc = "pr_save_dump"
    /\ \/ /\ metadata_processed' = save_metadata_dump(processed_files)
          /\ UNCHANGED <<meta_write_failed, clean>>
       \/ /\ meta_write_failed' = TRUE
          /\ clean' = FALSE
          /\ UNCHANGED metadata_processed
    /\ idx' = idx + 1
    /\ pc' = "pr_loop"
    /\ UNCHANGED transform_vars
    /\ UNCHANGED <<metadata_downloaded, local_folder, collection, downloaded_files,
                   processed_files, to_process_files, http_requests, outcome>>

\* The loop of process_files ends.
PrDone ==
    /\ pc = "pr_loop"
    /\ idx > Len(to_process_files)
    /\ pc' = "done"
    /\ UNCHANGED transform_vars
    /\ UNCHANGED <<metadata_downloaded, metadata_processed, local_folder, collection,
                   idx, downloaded_files, processed_files, to_process_files,
                   http_requests, outcome, meta_write_failed, clean>>

\* The script ends.
Finish ==
    /\ pc = "done"
    /\ Restart
    /\ UNCHANGED <<transform_vars, clean>>
    /\ UNCHANGED <<metadata_downloaded, metadata_processed, local_folder, collection>>

\* The process is killed (or the machine stops) between two steps: what is on
\* disk and in the collection stays, what is in memory is lost.
Crash ==
    /\ pc \notin {"idle", "done"}
    /\ Restart
    /\ UNCHANGED <<transform_vars, clean>>
    /\ UNCHANGED <<metadata_downloaded, metadata_processed, local_folder, collection>>

Next ==
    \/ StartRun
    \/ DlLoad
    \/ DlSkip
    \/ DlGet
    \/ DlOpen
    \/ DlWrite
    \/ DlSaveOpen
    \/ DlSaveDump
    \/ DlDone
    \/ PrLoad
    \/ PrRead
    \/ PrMongo
    \/ PrSaveOpen
    \/ PrSaveDump
    \/ PrDone
    \/ Finish
    \/ Crash

TransformIdle ==
    /\ source_rows = <<>>
    /\ spark_df = <<>>
    /\ stage = "read"

Init == PipelineInit /\ TransformIdle

Spec == Init /\ [][Next]_vars

\* ------------------------------------------------ the transformation

\* Sample values of the columns the transformation reads: a trip_distance
\* of 0 and at and above the two segment limits; amounts below, at and above
\* 0; timestamps in ticks, several ticks to a second.
Distances == {0, ShortMax, ShortMax + 1, MediumMax, MediumMax + 1}
TotalAmounts == {-1, 0, 1}
TipAmounts == {0, 1}
Timestamps == 0..MaxTick

\* A row of the parquet file under schema_spark (lines 96-116); of the 19
\* columns, the eight that are selected and one (fare_amount) that is not.
SourceRows ==
    [VendorID : {1}, tpep_pickup_datetime : Timestamps,
     tpep_dropoff_datetime : Timestamps, trip_distance : Distances,
     PULocationID : {1}, DOLocationID : {1}, tip_amount : TipAmounts,
     total_amount : TotalAmounts, fare_amount : {0}]

\* unix_timestamp(col): the timestamp in whole seconds.
unix_timestamp(t) == t \div TicksPerSecond

\* Line 136 with >= for > on total_amount.
filter_positive_or_zero(df) ==
    SelectSeq(df, LAMBDA r : r.trip_distance > 0 /\ r.total_amount >= 0)

\* Line 136: filter((col("trip_distance") > 0) & (col("total_amount") > 0)).
filter_positive(df) ==
    SelectSeq(df, LAMBDA r : r.trip_distance > 0 /\ r.total_amount > 0)

\* Line 137: filter(unix_timestamp(dropoff) > unix_timestamp(pickup)).
filter_duration(df) ==
    SelectSeq(df, LAMBDA r : unix_timestamp(r.tpep_dropoff_datetime)
                               > unix_timestamp(r.tpep_pickup_datetime))

\* Spark's "/" on numbers: a double, NULL when the divisor is 0. The quotient
\* is kept as the fraction num / den.
Null == [null |-> TRUE, num |-> 0, den |-> 1]
Divide(a, b) == IF b = 0 THEN Null ELSE [null |-> FALSE, num |-> a, den |-> b]
IsPositive(q) == ~q.null /\ q.num * q.den > 0

\* Lines 147-150: when(<= 2, "short").when(<= 10, "medium").otherwise("long").
distance_segment(d) ==
    IF d <= ShortMax THEN "short"
    ELSE IF d <= MediumMax THEN "medium"
    ELSE "long"

\* Lines 138-151: select of the eight columns and the three withColumn.
select_and_derive(df) ==
    [k \in 1..Len(df) |->
        LET r == df[k] IN
        [VendorID |-> r.VendorID,
         tpep_pickup_datetime |-> r.tpep_pickup_datetime,
         tpep_dropoff_datetime |-> r.tpep_dropoff_datetime,
         trip_distance |-> r.trip_distance,
         PULocationID |-> r.PULocationID,
         DOLocationID |-> r.DOLocationID,
         tip_amount |-> r.tip_amount,
         total_amount |-> r.total_amount,
         trip_duration_minutes |->
             Divide(unix_timestamp(r.tpep_dropoff_datetime)
                      - unix_timestamp(r.tpep_pickup_datetime), SecondsPerMinute),
         tip_ratio |-> Divide(r.tip_amount, r.total_amount),
         distance_segment |-> distance_segment(r.trip_distance)]]

\* Line 129: spark_df = spark.read.schema(schema_spark).parquet(original_file).
TransformInit ==
    /\ \E n \in 0..MaxRows : source_rows \in [1..n -> SourceRows]
    /\ spark_df = source_rows
    /\ stage = "read"

\* Line 136.
FilterPositive ==
    /\ stage = "read"
    /\ spark_df' = filter_positive(spark_df)
    /\ stage' = "positive"
    /\ UNCHANGED source_rows
    /\ UNCHANGED pipeline_vars

\* Line 137.
FilterDuration ==
    /\ stage = "positive"
    /\ spark_df' = filter_duration(spark_df)
    /\ stage' = "filtered"
    /\ UNCHANGED source_rows
    /\ UNCHANGED pipeline_vars

\* Lines 138-151.
SelectAndDerive ==
    /\ stage = "filtered"
    /\ spark_df' = select_and_derive(spark_df)
    /\ stage' = "transformed"
    /\ UNCHANGED source_rows
    /\ UNCHANGED pipeline_vars

TransformNext ==
    \/ FilterPositive
    \/ FilterDuration
    \/ SelectAndDerive

InitTransform == PipelineInit /\ TransformInit

SpecTransform == InitTransform /\ [][TransformNext]_vars

\* ------------------------------------------------------------ claims

Failed == {"read_error", "exec_error", "sink_unavailable", "partial_write"}
ProcessPcs == {"pr_loop", "pr_mongo", "pr_save_open", "pr_save_dump"}

\* C1: a file whose load failed (the store was unreachable) or stored only
\* part of its documents in this execution is not in the Processed Set.
C1_ProcessedOnlyAfterFullLoad ==
    \A f \in Files :
        outcome[f] \in {"sink_unavailable", "partial_write"} => f \notin ProcessedSet

\* C2: whenever both checkpoint files can be loaded, the Processed Set is a
\* subset of the Downloaded Set.
C2_ProcessedSubsetDownloaded ==
    (Readable(metadata_downloaded) /\ Readable(metadata_processed))
        => ProcessedSet \subseteq DownloadedSet

\* C2 witness: after a crash between the write of a local file and the persist
\* of the Downloaded Set (the file is on disk, its key is not recorded), with
\* another file processed.
C2_Witness ==
    /\ pc = "idle"
    /\ ProcessedSet # {}
    /\ \E f \in Files : local_folder[f] = "full" /\ f \notin DownloadedSet
    /\ Readable(metadata_downloaded)

\* C3 as stated: the documents of no file are inserted more than once.
C3_LoadedAtMostOnce == \A f \in Files : collection[f] # "duplicated"

\* C3 as amended: the file process_files is about to transform or load is
\* never in the persisted Processed Set, and no step inserts documents of a
\* file that is in the persisted Processed Set.
C3_ProcessedNeverReloaded ==
    /\ [](\A f \in Files :
            (pc \in {"pr_loop", "pr_mongo"} /\ idx <= Len(to_process_files)
               /\ to_process_files[idx] = f) => f \notin ProcessedSet)
    /\ [][\A f \in Files : f \in ProcessedSet => collection'[f] = collection[f]]_vars

\* C3 witness: a later execution is loading a file while another file, which
\* is downloaded and in the Processed Set, was left out of to_process_files.
C3_Witness ==
    /\ pc = "pr_mongo"
    /\ \E f \in ProcessedSet :
          f \in Range(downloaded_files) /\ f \notin Range(to_process_files)

\* C4: with crashes the only mishap so far, a checkpoint file left behind by
\* an execution holds a complete list: load_metadata returns a set.
C4_SaveMetadataAtomic ==
    (pc = "idle" /\ clean) =>
        (Readable(metadata_downloaded) /\ Readable(metadata_processed))

\* C5: an execution in which save_metadata raised does not go on.
C5_MetadataWriteFailureFatal == meta_write_failed => pc = "idle"

\* C6: no step issues a request for, changes the local file of, or drops from
\* the persisted Downloaded Set an entry that is in the persisted Downloaded
\* Set.
C6_FetchIdempotent ==
    [][\A f \in Files :
          f \in DownloadedSet =>
              /\ http_requests'[f] <= http_requests[f]
              /\ local_folder'[f] = local_folder[f]
              /\ Readable(metadata_downloaded)' => f \in DownloadedSet']_vars

\* C6 witness: download_new_files has just passed an entry that is in the
\* Downloaded Set, without a request.
C6_Witness ==
    /\ pc = "dl_loop"
    /\ idx > 1
    /\ Catalog[idx - 1] \in DownloadedSet
    /\ http_requests[Catalog[idx - 1]] = 0
    /\ local_folder[Catalog[idx - 1]] = "full"

\* C7: a file whose transform or load raised in this execution is not in the
\* Processed Set; when the loop has ended every pending file was attempted,
\* and each one that was loaded and whose checkpoint write succeeded is in the
\* Processed Set.
C7_FailureIsolation ==
    /\ \A f \in Files : outcome[f] \in Failed => f \notin ProcessedSet
    /\ (pc = "done" /\ ~meta_write_failed) =>
          \A f \in Range(to_process_files) :
              /\ outcome[f] # "none"
              /\ outcome[f] = "loaded" => f \in ProcessedSet

\* C8: with crashes the only mishap so far (every download, transform, load
\* and file write succeeded), an execution that runs to its end leaves every
\* entry whose bytes are on the local disk in the Processed Set.
C8_Resumable ==
    (pc = "done" /\ clean) =>
        \A f \in Files : local_folder[f] = "full" => f \in ProcessedSet

BaseColumns(r) ==
    [VendorID |-> r.VendorID,
     tpep_pickup_datetime |-> r.tpep_pickup_datetime,
     tpep_dropoff_datetime |-> r.tpep_dropoff_datetime,
     trip_distance |-> r.trip_distance,
     PULocationID |-> r.PULocationID,
     DOLocationID |-> r.DOLocationID,
     tip_amount |-> r.tip_amount,
     total_amount |-> r.total_amount]
Emitted(df) == [k \in 1..Len(df) |-> BaseColumns(df[k])]

\* What every emitted row satisfies, and the two filters commuting.
C10_Consequences ==
    /\ \A k \in 1..Len(spark_df) :
          /\ IsPositive(spark_df[k].trip_duration_minutes)
          /\ ~spark_df[k].tip_ratio.null
          /\ spark_df[k].total_amount # 0
          /\ spark_df[k].tpep_dropoff_datetime > spark_df[k].tpep_pickup_datetime
    /\ filter_duration(filter_positive(source_rows))
          = filter_positive(filter_duration(source_rows))

\* C10 as stated: the output is exactly the input rows with trip_distance > 0,
\* total_amount > 0 and dropoff timestamp > pickup timestamp.
C10_ExactFilter ==
    stage = "transformed" =>
        /\ Emitted(spark_df) =
              Emitted(SelectSeq(source_rows,
                  LAMBDA r : /\ r.trip_distance > 0
                             /\ r.total_amount > 0
                             /\ r.tpep_dropoff_datetime > r.tpep_pickup_datetime))
        /\ C10_Consequences

\* C10 as amended: the output is exactly the input rows with trip_distance > 0,
\* total_amount > 0 and dropoff later than pickup in whole seconds.
C10_ExactFilterInSeconds ==
    stage = "transformed" =>
        /\ Emitted(spark_df) =
              Emitted(SelectSeq(source_rows,
                  LAMBDA r : /\ r.trip_distance > 0
                             /\ r.total_amount > 0
                             /\ unix_timestamp(r.tpep_dropoff_datetime)
                                  > unix_timestamp(r.tpep_pickup_datetime)))
        /\ C10_Consequences

\* C10 witness: a transformed dataframe whose rows all passed both filters.
C10_Witness ==
    /\ stage = "transformed"
    /\ Len(source_rows) > 0
    /\ Len(spark_df) = Len(source_rows)

====
